---- MODULE Spec2Model ----
(***************************************************************************)
(* Model of the recipe ETL pipeline: the extraction lambda                 *)
(* (lambdas/data_extraction/data_extranction.py) and the transformation    *)
(* lambda (lambdas/data_transformation/data_transfromation.py).            *)
(***************************************************************************)
EXTENDS Integers, Sequences, FiniteSets, TLC

VARIABLES
    cfg,              \* module-level configuration: batch_size, max_workers
    event,            \* the ingestion event: its raw objects, in order
    h_pc,             \* extraction lambda_handler: "fetch" | "running" | "returned" | "raised"
    h_k,              \* index of the event record being handled
    batches,          \* batches of the raw object being handled
    workers,          \* per batch: the state of its extract_recipe_data call
    temp_bucket,      \* artifacts stored in TEMP_BUCKET
    failed_bucket,    \* artifacts stored in FAILED_BUCKET
    disk,             \* local scratch files present on the host
    queue,            \* messages accepted by the processing queue
    summaries,        \* summary lines printed by the extraction lambda_handler
    h_results,        \* extraction lambda_handler: the list threaded_extraction returned
    t_pc,             \* transformation lambda_handler: "idle" | "running" | "returned" | "raised"
    t_event,          \* the transformation event: work notifications, in order
    t_k,              \* index of the notification being handled
    t_log,            \* per handled notification: what happened to it
    processed_bucket, \* artifacts stored in PROCESSED_BUCKET
    pure              \* input and result of a pure function under test

vars == <<cfg, event, h_pc, h_k, batches, workers, temp_bucket, failed_bucket,
          disk, queue, summaries, h_results, t_pc, t_event, t_k, t_log, processed_bucket, pure>>

extractionVars == <<cfg, event, h_pc, h_k, batches, workers, temp_bucket,
                    failed_bucket, disk, queue, summaries, h_results>>

transformationVars == <<t_pc, t_event, t_k, t_log, processed_bucket>>

-----------------------------------------------------------------------------
(* Bounds of the model *)

\* records in one ingestion event, over all its raw objects
MaxRecords == 3

\* raw objects in one ingestion event
MaxObjects == 2

\* records of the sequences the batching step is applied to on its own
MaxLen == 12

\* batch sizes the batching step is applied with on its own
MaxBatchSize == 5

\* pieces a direction string is put together from
MaxPieces == 4

\* directions of the lists get_time_estimate is applied to on its own
MaxDirections == 2

\* directions, and ingredients, of the records the scores are computed for on
\* their own
MaxItems == 20

-----------------------------------------------------------------------------
(* Configuration, data_extranction.py lines 14-18 *)

TEMP_BUCKET == "temp-recipes-bucket"

FAILED_BUCKET == "failed-recipes-bucket"

PROCESSED_BUCKET == "processed-recipes-bucket"

BATCH_SIZE == 100

MAX_WORKERS == 10

\* the batch sizes and worker limits the module is configured with
BatchSizes == {1, 2, BATCH_SIZE}

WorkerLimits == {1, 2, MAX_WORKERS}

Configs == [batch_size : BatchSizes, max_workers : WorkerLimits]

\* None, where a key is expected: no path segments
None == <<>>

Min(a, b) == IF a < b THEN a ELSE b

Last(s) == s[Len(s)]

-----------------------------------------------------------------------------
(* Raw records.  A record of a raw object is a JSON value; `kind` names    *)
(* its shape, `id` its position in the raw object.                         *)

Kinds == {"ok", "notags", "bad", "null"}

\* the keys of a record (a JSON object); "null" is not an object
KeysOf(recipe) ==
    CASE recipe.kind = "ok"     -> {"title", "ingredients", "directions", "tags"}
      [] recipe.kind = "notags" -> {"title", "ingredients", "directions"}
      [] recipe.kind = "bad"    -> {"title", "tags"}
      [] OTHER                  -> {}

\* `field in recipe` raises TypeError when recipe is no container
IsContainer(recipe) == recipe.kind # "null"

required_fields == <<"title", "ingredients", "directions">>

\* the validator satisfied by any one of the required fields
validate_raw_data_any_field(recipe) ==
    \E n \in 1..Len(required_fields) : required_fields[n] \in KeysOf(recipe)

validate_raw_data(recipe) ==
    \A n \in 1..Len(required_fields) : required_fields[n] \in KeysOf(recipe)

-----------------------------------------------------------------------------
(* Raw objects and ingestion events *)

\* the record sequences of length n, record i carrying id i
RecordSeqs(n) ==
    {[i \in 1..n |-> [id |-> i, kind |-> ks[i]]] : ks \in [1..n -> Kinds]}

\* a raw object: fetched and parsed ("ok"), absent ("missing": get_object
\* raises) or no JSON list ("malformed": json.load or the slicing raises)
RawObjects ==
    {[status |-> "ok", recipes |-> rs] : rs \in UNION {RecordSeqs(n) : n \in 0..MaxRecords}}
    \cup {[status |-> "missing", recipes |-> <<>>],
          [status |-> "malformed", recipes |-> <<>>]}

RECURSIVE TotalRecords(_)
TotalRecords(ev) ==
    IF ev = <<>> THEN 0 ELSE Len(ev[1].recipes) + TotalRecords(Tail(ev))

\* 250 well-formed records in one raw object
LargeObject ==
    [status |-> "ok", recipes |-> [i \in 1..250 |-> [id |-> i, kind |-> "ok"]]]

Events ==
    {ev \in UNION {[1..n -> RawObjects] : n \in 1..MaxObjects} :
        TotalRecords(ev) <= MaxRecords}
    \cup {<<LargeObject>>}

-----------------------------------------------------------------------------
(* Batching, data_extranction.py lines 109-111 *)

\* range(start, stop, step) for step > 0
RECURSIVE Range(_, _, _)
Range(start, stop, step) ==
    IF start >= stop THEN <<>> ELSE <<start>> \o Range(start + step, stop, step)

\* s[lo:hi] for 0 <= lo <= hi
Slice(s, lo, hi) == SubSeq(s, lo + 1, Min(hi, Len(s)))

\* the batching step with slices one record short
MakeBatches_short_slice(recipes, batch_size) ==
    LET starts == Range(0, Len(recipes), batch_size)
    IN  [n \in 1..Len(starts) |-> Slice(recipes, starts[n], starts[n] + batch_size - 1)]

MakeBatches(recipes, batch_size) ==
    LET starts == Range(0, Len(recipes), batch_size)
    IN  [n \in 1..Len(starts) |-> Slice(recipes, starts[n], starts[n] + batch_size)]

-----------------------------------------------------------------------------
(* extract_recipe_data and its helpers *)

\* the loop of lines 67-71: the records go, in order, to the valid or to the
\* invalid sub-list; validate_raw_data raises TypeError on the first record
\* that is no container, and the loop stops there
SplitRecipes(recipes) ==
    LET bad  == {n \in 1..Len(recipes) : ~IsContainer(recipes[n])}
        stop == IF bad = {} THEN Len(recipes) + 1
                ELSE CHOOSE n \in bad : \A m \in bad : n <= m
        seen == SubSeq(recipes, 1, stop - 1)
    IN  [raised |-> bad # {},
         valid |-> SelectSeq(seen, validate_raw_data),
         invalid |-> SelectSeq(seen, LAMBDA recipe : ~validate_raw_data(recipe))]

\* "%Y/%m/%d/<uuid4>.parquet" as its path segments; uid stands for the uuid4
create_s3_bucket_key(uid) ==
    <<"yyyy", "mm", "dd", [uuid |-> uid, ext |-> "parquet"]>>

\* pd.DataFrame(list of dicts): the columns are the keys present in the rows
DataFrame(recipes) ==
    [rows |-> recipes, cols |-> UNION {KeysOf(recipes[n]) : n \in 1..Len(recipes)}]

\* create_temp_file that stores nothing for an empty list
create_temp_file_skip_empty(recipes, store, files, uid, outcome) ==
    IF outcome = "ok"
    THEN [raised |-> FALSE, key |-> create_s3_bucket_key(uid),
          store |-> IF recipes = <<>> THEN store
                    ELSE store \cup {[key |-> create_s3_bucket_key(uid),
                                      rows |-> recipes, cols |-> DataFrame(recipes).cols]},
          files |-> files]
    ELSE [raised |-> TRUE, key |-> None, store |-> store,
          files |-> IF outcome = "upload_error"
                    THEN files \cup {create_s3_bucket_key(uid)} ELSE files]

WriteOutcomes == {"ok", "encode_error", "upload_error"}

\* create_temp_file on `store` (the bucket's content) and the local disk `files`:
\*   encode_error  makedirs or to_parquet raises, no scratch file was written
\*   upload_error  the scratch file is written, s3.upload_file raises
\*   ok            written, uploaded, removed, the key returned
create_temp_file(recipes, store, files, uid, outcome) ==
    LET temp_key == create_s3_bucket_key(uid)
        df       == DataFrame(recipes)
    IN  CASE outcome = "encode_error" ->
               [raised |-> TRUE, key |-> None, store |-> store, files |-> files]
          [] outcome = "upload_error" ->
               [raised |-> TRUE, key |-> None, store |-> store,
                files |-> files \cup {temp_key}]
          [] OTHER ->
               [raised |-> FALSE, key |-> temp_key,
                store |-> store \cup {[key |-> temp_key, rows |-> df.rows, cols |-> df.cols]},
                files |-> (files \cup {temp_key}) \ {temp_key}]

SendOutcomes == {"200", "500", "error"}

\* the body naming the quarantine area
MessageBody_quarantine_area(temp_key) ==
    [source_bucket |-> FAILED_BUCKET, source_key |-> temp_key]

\* the body of the message send_message_to_queue sends (the timestamp is left out)
MessageBody(temp_key) == [source_bucket |-> TEMP_BUCKET, source_key |-> temp_key]

\* sqs.send_message: accepted (200), answered with another status, or raising
send_message_to_queue(temp_key, q, outcome) ==
    CASE outcome = "error" -> [raised |-> TRUE, status |-> 0, queue |-> q]
      [] outcome = "500"   -> [raised |-> FALSE, status |-> 500, queue |-> q]
      [] OTHER             -> [raised |-> FALSE, status |-> 200,
                               queue |-> Append(q, MessageBody(temp_key))]

QueuedWorker ==
    [pc |-> "queued", valid |-> <<>>, invalid |-> <<>>, temp_key |-> None,
     failed_key |-> None, result |-> None, fault |-> "none", sends |-> 0,
     status |-> 0, logged |-> <<>>, rank |-> 0]

\* the batches that have returned; a returning batch notes its place in the
\* order of return as its rank
Returned == {j \in 1..Len(workers) : workers[j].pc = "done"}

\* the except clause of lines 87-89: log and return None
Except(wk, step) ==
    [wk EXCEPT !.pc = "done", !.result = None, !.fault = step,
               !.rank = Cardinality(Returned) + 1,
               !.logged = Append(@, "Error extracting recipe data")]

Active(j) == workers[j].pc \in {"primary", "quarantine", "publish"}

NumActive == Cardinality({j \in 1..Len(workers) : Active(j)})

\* a thread started for every submitted batch, whatever the number running
StartBatch_unbounded(j) ==
    /\ h_pc = "running"
    /\ workers[j].pc = "queued"
    /\ LET split == SplitRecipes(batches[j])
       IN  workers' = [workers EXCEPT ![j] =
               IF split.raised THEN Except(@, "validate")
               ELSE [@ EXCEPT !.pc = "primary", !.valid = split.valid,
                              !.invalid = split.invalid]]
    /\ UNCHANGED <<cfg, event, h_pc, h_k, batches, temp_bucket, failed_bucket,
                   disk, queue, summaries>>
    /\ UNCHANGED h_results
    /\ UNCHANGED transformationVars
    /\ UNCHANGED pure

\* a pool thread takes batch j off the executor's FIFO work queue and runs
\* lines 64-71 of extract_recipe_data
StartBatch(j) ==
    /\ h_pc = "running"
    /\ workers[j].pc = "queued"
    /\ \A i \in 1..(j - 1) : workers[i].pc # "queued"
    /\ NumActive < cfg.max_workers
    /\ LET split == SplitRecipes(batches[j])
       IN  workers' = [workers EXCEPT ![j] =
               IF split.raised THEN Except(@, "validate")
               ELSE [@ EXCEPT !.pc = "primary", !.valid = split.valid,
                              !.invalid = split.invalid]]
    /\ UNCHANGED <<cfg, event, h_pc, h_k, batches, temp_bucket, failed_bucket,
                   disk, queue, summaries>>
    /\ UNCHANGED h_results
    /\ UNCHANGED transformationVars
    /\ UNCHANGED pure

\* line 73: temp_key = create_temp_file(valid_recipes, TEMP_BUCKET)
WritePrimary(j, outcome) ==
    /\ h_pc = "running"
    /\ workers[j].pc = "primary"
    /\ LET r == create_temp_file(workers[j].valid, temp_bucket, disk,
                                 <<h_k, j, "valid">>, outcome)
       IN  /\ temp_bucket' = r.store
           /\ disk' = r.files
           /\ workers' = [workers EXCEPT ![j] =
                  IF r.raised THEN Except(@, "primary")
                  ELSE [@ EXCEPT !.temp_key = r.key,
                                 !.pc = IF Len(workers[j].invalid) > 0 THEN "quarantine"
                                        ELSE "publish"]]
    /\ UNCHANGED <<cfg, event, h_pc, h_k, batches, failed_bucket, queue, summaries>>
    /\ UNCHANGED h_results
    /\ UNCHANGED transformationVars
    /\ UNCHANGED pure

\* lines 75-79: the invalid sub-list goes to FAILED_BUCKET
WriteQuarantine(j, outcome) ==
    /\ h_pc = "running"
    /\ workers[j].pc = "quarantine"
    /\ LET r == create_temp_file(workers[j].invalid, failed_bucket, disk,
                                 <<h_k, j, "invalid">>, outcome)
       IN  /\ failed_bucket' = r.store
           /\ disk' = r.files
           /\ workers' = [workers EXCEPT ![j] =
                  IF r.raised THEN Except(@, "quarantine")
                  ELSE [@ EXCEPT !.failed_key = r.key, !.pc = "publish",
                                 !.logged = Append(@, "Failed recipes saved")]]
    /\ UNCHANGED <<cfg, event, h_pc, h_k, batches, temp_bucket, queue, summaries>>
    /\ UNCHANGED h_results
    /\ UNCHANGED transformationVars
    /\ UNCHANGED pure

\* lines 81-86: one send, a status other than 200 is printed, the key returned
Publish(j, outcome) ==
    /\ h_pc = "running"
    /\ workers[j].pc = "publish"
    /\ LET r == send_message_to_queue(workers[j].temp_key, queue, outcome)
       IN  /\ queue' = r.queue
           /\ workers' = [workers EXCEPT ![j] =
                  IF r.raised THEN Except([@ EXCEPT !.sends = @ + 1], "publish")
                  ELSE [@ EXCEPT !.sends = @ + 1, !.status = r.status,
                                 !.pc = "done", !.result = workers[j].temp_key,
                                 !.rank = Cardinality(Returned) + 1,
                                 !.logged = IF r.status # 200
                                            THEN Append(@, "Error sending message to queue")
                                            ELSE @]]
    /\ UNCHANGED <<cfg, event, h_pc, h_k, batches, temp_bucket, failed_bucket,
                   disk, summaries>>
    /\ UNCHANGED h_results
    /\ UNCHANGED transformationVars
    /\ UNCHANGED pure

-----------------------------------------------------------------------------
(* The extraction lambda_handler, lines 97-122 *)

\* the handler taking a raw object it cannot fetch or parse for an empty list
Fetch_swallows_error ==
    /\ h_pc = "fetch"
    /\ batches' = IF event[h_k].status # "ok" THEN <<>>
                  ELSE MakeBatches(event[h_k].recipes, cfg.batch_size)
    /\ workers' = [j \in 1..Len(batches') |-> QueuedWorker]
    /\ h_pc' = "running"
    /\ UNCHANGED <<cfg, event, h_k, temp_bucket, failed_bucket, disk, queue, summaries>>
    /\ UNCHANGED h_results
    /\ UNCHANGED transformationVars
    /\ UNCHANGED pure

\* the handler undoing the event's earlier writes when a raw object fails
Fetch_rolls_back ==
    /\ h_pc = "fetch"
    /\ IF event[h_k].status # "ok"
       THEN /\ h_pc' = "raised"
            /\ temp_bucket' = {}
            /\ failed_bucket' = {}
            /\ UNCHANGED <<batches, workers>>
       ELSE /\ batches' = MakeBatches(event[h_k].recipes, cfg.batch_size)
            /\ workers' = [j \in 1..Len(batches') |-> QueuedWorker]
            /\ h_pc' = "running"
            /\ UNCHANGED <<temp_bucket, failed_bucket>>
    /\ UNCHANGED <<cfg, event, h_k, disk, queue, summaries>>
    /\ UNCHANGED h_results
    /\ UNCHANGED transformationVars
    /\ UNCHANGED pure

\* lines 101-113 up to the submission of the batches to the pool
Fetch ==
    /\ h_pc = "fetch"
    /\ IF event[h_k].status # "ok"
       THEN /\ h_pc' = "raised"
            /\ UNCHANGED <<batches, workers>>
       ELSE /\ batches' = MakeBatches(event[h_k].recipes, cfg.batch_size)
            /\ workers' = [j \in 1..Len(batches') |-> QueuedWorker]
            /\ h_pc' = "running"
    /\ UNCHANGED <<cfg, event, h_k, temp_bucket, failed_bucket, disk, queue, summaries>>
    /\ UNCHANGED h_results
    /\ UNCHANGED transformationVars
    /\ UNCHANGED pure

\* the results listed in the order in which the batches returned
threaded_extraction_in_order_of_return ==
    [n \in 1..Len(workers) |->
        workers[CHOOSE j \in 1..Len(workers) : workers[j].rank = n].result]

\* list(executor.map(...)): entry j is the result of batch j
threaded_extraction == [j \in 1..Len(workers) |-> workers[j].result]

\* the filter of line 115 inverted
none_results_inverted(results) == SelectSeq(results, LAMBDA r : r # None)

none_results(results) == SelectSeq(results, LAMBDA r : r = None)

\* the summary printed without the test of line 117
PrintSummary_unguarded(printed, k, recipes, results) ==
    Append(printed, [k |-> k, total |-> Len(recipes), batches |-> Len(results),
                     failed |-> Len(SelectSeq(results, LAMBDA r : r = None))])

\* lines 115-120: the summary line, printed when there is any result
PrintSummary(printed, k, recipes, results) ==
    IF Len(results) > 0
    THEN Append(printed, [k |-> k, total |-> Len(recipes), batches |-> Len(results),
                          failed |-> Len(none_results(results))])
    ELSE printed

\* the handler going on as soon as one batch has returned
Collect_first_returned ==
    /\ h_pc = "running"
    /\ \E j \in 1..Len(workers) : workers[j].pc = "done"
    /\ h_results' = threaded_extraction
    /\ summaries' = PrintSummary(summaries, h_k, event[h_k].recipes, h_results')
    /\ IF h_k < Len(event)
       THEN h_k' = h_k + 1 /\ h_pc' = "fetch"
       ELSE h_k' = h_k /\ h_pc' = "returned"
    /\ UNCHANGED <<cfg, event, batches, workers, temp_bucket, failed_bucket, disk, queue>>
    /\ UNCHANGED transformationVars
    /\ UNCHANGED pure

\* lines 113-120, once every batch has returned, and the step to the next record
Collect ==
    /\ h_pc = "running"
    /\ \A j \in 1..Len(workers) : workers[j].pc = "done"
    /\ h_results' = threaded_extraction
    /\ summaries' = PrintSummary(summaries, h_k, event[h_k].recipes, h_results')
    /\ IF h_k < Len(event)
       THEN h_k' = h_k + 1 /\ h_pc' = "fetch"
       ELSE h_k' = h_k /\ h_pc' = "returned"
    /\ UNCHANGED <<cfg, event, batches, workers, temp_bucket, failed_bucket, disk, queue>>
    /\ UNCHANGED transformationVars
    /\ UNCHANGED pure

-----------------------------------------------------------------------------
(* Text.  A string is the sequence of its characters. *)

Digits == {"0", "1", "2", "3", "4", "5", "6", "7", "8", "9"}

Letters ==
    {"a", "b", "c", "d", "e", "f", "g", "h", "i", "j", "k", "l", "m", "n", "o",
     "p", "q", "r", "s", "t", "u", "v", "w", "x", "y", "z",
     "A", "B", "C", "D", "E", "F", "G", "H", "I", "J", "K", "L", "M", "N", "O",
     "P", "Q", "R", "S", "T", "U", "V", "W", "X", "Y", "Z"}

\* \d, \s and \w of the re module
Spaces == {" ", "\t", "\n", "\r"}

WordChars == Letters \cup Digits \cup {"_"}

DigitValue(c) ==
    CASE c = "0" -> 0 [] c = "1" -> 1 [] c = "2" -> 2 [] c = "3" -> 3 [] c = "4" -> 4
      [] c = "5" -> 5 [] c = "6" -> 6 [] c = "7" -> 7 [] c = "8" -> 8 [] OTHER -> 9

\* int(number) for a string of digits
RECURSIVE int(_)
int(number) ==
    IF number = <<>> THEN 0
    ELSE 10 * int(SubSeq(number, 1, Len(number) - 1)) + DigitValue(Last(number))

-----------------------------------------------------------------------------
(* The feature transformer, data_transfromation.py lines 15-77 *)

HOURS == <<"h", "o", "u", "r", "s">>

HOUR == <<"h", "o", "u", "r">>

MINUTES == <<"m", "i", "n", "u", "t", "e", "s">>

MINUTE == <<"m", "i", "n", "u", "t", "e">>

SECONDS == <<"s", "e", "c", "o", "n", "d", "s">>

SECOND == <<"s", "e", "c", "o", "n", "d">>

TIME_UNITS ==
    {[unit |-> HOURS, seconds |-> 3600],
     [unit |-> HOUR, seconds |-> 3600],
     [unit |-> MINUTES, seconds |-> 60],
     [unit |-> MINUTE, seconds |-> 60],
     [unit |-> SECONDS, seconds |-> 1],
     [unit |-> SECOND, seconds |-> 1]}

\* unit in TIME_UNITS, TIME_UNITS[unit]
InTimeUnits(unit) == \E u \in TIME_UNITS : u.unit = unit

UnitSeconds(unit) == (CHOOSE u \in TIME_UNITS : u.unit = unit).seconds

\* the end (exclusive) of the longest run of characters of a class from p
RunEnd(s, p, class) ==
    LET stops == {n \in p..Len(s) : s[n] \notin class}
    IN  IF stops = {} THEN Len(s) + 1
        ELSE CHOOSE n \in stops : \A m \in stops : n <= m

\* time_pattern = (\d+)\s*(\w+) tried at position p: the ways to match, as the
\* pairs <<d, w>> where \d+ ends at d and (\w+) begins at w
Candidates(s, p) ==
    UNION {{<<d, w>> : w \in {v \in d..RunEnd(s, d, Spaces) :
                                  v <= Len(s) /\ s[v] \in WordChars}} :
           d \in (p + 1)..RunEnd(s, p, Digits)}

\* greedy and backtracking: \d+ as long as it can be, then \s* as long as it can be
FirstChoice(cands) ==
    CHOOSE x \in cands :
        \A y \in cands : x[1] > y[1] \/ (x[1] = y[1] /\ x[2] >= y[2])

\* the match that begins at p with the choice c; \w+ takes the longest run
MatchOf(s, p, c) ==
    [found |-> TRUE, number |-> SubSeq(s, p, c[1] - 1),
     unit |-> SubSeq(s, c[2], RunEnd(s, c[2], WordChars) - 1),
     end |-> RunEnd(s, c[2], WordChars)]

FirstMatch(s, p, cands) ==
    IF cands = {} THEN [found |-> FALSE] ELSE MatchOf(s, p, FirstChoice(cands))

MatchAt(s, p) == FirstMatch(s, p, Candidates(s, p))

\* time_pattern.findall(direction): the matches, left to right, not overlapping
RECURSIVE FindAll(_, _)
RECURSIVE FindNext(_, _, _)
FindNext(s, p, m) ==
    IF m.found
    THEN <<[number |-> m.number, unit |-> m.unit]>> \o FindAll(s, m.end)
    ELSE FindAll(s, p + 1)

FindAll(s, p) ==
    IF p > Len(s) THEN <<>> ELSE FindNext(s, p, MatchAt(s, p))

\* lines 51-60: the inner loop over the matches of one direction
RECURSIVE SumMatches(_, _)
SumMatches(matches, acc) ==
    IF matches = <<>> THEN acc
    ELSE LET match == Head(matches)
         IN  IF ~InTimeUnits(match.unit)
             THEN SumMatches(Tail(matches), acc)
             ELSE SumMatches(Tail(matches),
                             [time |-> acc.time + int(match.number) * UnitSeconds(match.unit),
                              any_match |-> TRUE])

\* the default added only for a direction without any match
DirectionTime_default_without_match(direction) ==
    IF FindAll(direction, 1) = <<>> THEN 300
    ELSE SumMatches(FindAll(direction, 1), [time |-> 0, any_match |-> FALSE]).time

\* lines 48-64 for one direction: what it adds to time_estimate
DirectionTime(direction) ==
    LET r == SumMatches(FindAll(direction, 1), [time |-> 0, any_match |-> FALSE])
    IN  IF ~r.any_match THEN r.time + 300 ELSE r.time

RECURSIVE get_time_estimate(_)
get_time_estimate(directions) ==
    IF directions = <<>> THEN 0
    ELSE get_time_estimate(SubSeq(directions, 1, Len(directions) - 1))
         + DirectionTime(Last(directions))

-----------------------------------------------------------------------------
(* Binary floating point (float64).  A float near a decimal is the record   *)
(* [t, off] that stands for exactly t/10 + off * 2^-54 / 10; every float    *)
(* of magnitude 0.25 and above has such a form with integers t and off.     *)

RECURSIVE Pow2(_)
Pow2(n) == IF n = 0 THEN 1 ELSE 2 * Pow2(n - 1)

\* the literals 0.6 and 0.4 as float64
Float06 == [t |-> 6, off |-> 0 - 4]

Float04 == [t |-> 4, off |-> 4]

\* v < n for a float v and an integer n
FloatLess(v, n) == v.t < 10 * n \/ (v.t = 10 * n /\ v.off < 0)

\* 2^e <= x for a real x = t/10 + off*2^-54/10 >= 0.25 and e >= -2
AtLeastPow2(x, e) ==
    IF e < 0
    THEN 10 <= x.t * Pow2(0 - e)
    ELSE x.t > 10 * Pow2(e) \/ (x.t = 10 * Pow2(e) /\ x.off >= 0)

\* the binary exponent e of x: 2^e <= x < 2^(e+1)
Exponent(x) ==
    CHOOSE e \in (0 - 2)..20 :
        AtLeastPow2(x, e) /\ \A f \in (e + 1)..20 : ~AtLeastPow2(x, f)

\* the spacing of the floats of exponent e, in units of 2^-54/10
Spacing(e) == 10 * Pow2(e + 2)

\* 2^n mod 5, from the period 4 of the powers of 2 modulo 5
Pow2Mod5(n) ==
    CASE n % 4 = 0 -> 1 [] n % 4 = 1 -> 2 [] n % 4 = 2 -> 4 [] OTHER -> 3

\* x in units of 2^-54/10, modulo twice the spacing:
\* t * 2^54 = 2^(e+4) * (t * 2^(50-e)), and twice the spacing is 5 * 2^(e+4)
Residue(x, e) ==
    (Pow2(e + 4) * ((x.t * Pow2Mod5(50 - e)) % 5) + x.off) % (2 * Spacing(e))

\* the multiple of the spacing g nearest to x, ties to the even multiple
Nearest(x, g, xm) ==
    LET r == xm % g
    IN  IF 2 * r < g \/ (2 * r = g /\ xm \div g = 0)
        THEN [t |-> x.t, off |-> x.off - r]
        ELSE [t |-> x.t, off |-> x.off + (g - r)]

RoundAt(x, e) == Nearest(x, Spacing(e), Residue(x, e))

\* round a real to the nearest float64, ties to even
RoundToFloat(x) ==
    IF x.t = 0 /\ x.off = 0 THEN x ELSE RoundAt(x, Exponent(x))

FloatMul(n, v) == RoundToFloat([t |-> n * v.t, off |-> n * v.off])

FloatAdd(v, w) == RoundToFloat([t |-> v.t + w.t, off |-> v.off + w.off])

-----------------------------------------------------------------------------
(* Scores *)

\* line 26: (len(directions) * 0.6) + (len(ingredients) * 0.4)
get_complexity_score(ingredients, directions) ==
    FloatAdd(FloatMul(Len(directions), Float06), FloatMul(Len(ingredients), Float04))

get_difficulty_flag(complexity_score) ==
    IF FloatLess(complexity_score, 4) THEN "easy"
    ELSE IF FloatLess(complexity_score, 8) THEN "medium"
    ELSE "hard"

-----------------------------------------------------------------------------
(* The content of the records of each kind *)

BOIL == <<"B", "o", "i", "l", " ", "f", "o", "r", " ", "1", "0", " ", "m", "i", "n", "u", "t", "e", "s">>

WAIT == <<"W", "a", "i", "t", " ", "2", " ", "h", "o", "u", "r", "s", " ", "a", "n", "d", " ", "3", "0", " ", "m", "i", "n", "u", "t", "e", "s">>

DASHES == <<"1", "0", " ", "d", "a", "s", "h", "e", "s">>

STIR == <<"S", "t", "i", "r", " ", "w", "e", "l", "l">>

Ingredients(recipe) ==
    IF recipe.kind = "ok" THEN <<"flour", "water">>
    ELSE <<"flour", "water", "salt", "yeast">>

Directions(recipe) ==
    IF recipe.kind = "ok" THEN <<BOIL>>
    ELSE <<STIR, WAIT, DASHES, BOIL, STIR, STIR>>

-----------------------------------------------------------------------------
(* The transformation lambda, data_transfromation.py lines 69-119 *)

\* lines 70-74 on a row of the given content: the fields derived from it
DerivedFields(row) ==
    LET complexity_score == get_complexity_score(Ingredients(row), Directions(row))
    IN  [complexity_score |-> complexity_score,
         difficulty_flag |-> get_difficulty_flag(complexity_score),
         time_estimate |-> get_time_estimate(Directions(row))]

\* the derived fields of the rows of each kind, computed once
DerivedByKind == [k \in {"ok", "notags"} |-> DerivedFields([kind |-> k])]

\* lines 69-77; uid stands for the uuid4 of get_recipe_id
transform_row(row, uid) ==
    [id |-> row.id, kind |-> row.kind,
     complexity_score |-> DerivedByKind[row.kind].complexity_score,
     difficulty_flag |-> DerivedByKind[row.kind].difficulty_flag,
     time_estimate |-> DerivedByKind[row.kind].time_estimate,
     recipe_id |-> uid]

DerivedColumns == {"complexity_score", "difficulty_flag", "time_estimate", "recipe_id"}

\* df.apply(transform_row, axis=1): an empty frame comes back as it is
Apply(df, k) ==
    IF Len(df.rows) = 0 THEN df
    ELSE [rows |-> [n \in 1..Len(df.rows) |-> transform_row(df.rows[n], <<"recipe", k, n>>)],
          cols |-> df.cols \cup DerivedColumns]

\* the columns of lines 100-111
RetainedColumns ==
    {"title", "ingredients", "directions", "tags",
     "complexity_score", "difficulty_flag", "time_estimate", "recipe_id"}

\* a text is the sequence of its lines, a line the sequence of its words;
\* str() of a str is the one word
Str(word) == <<<<word>>>>

\* str() of the Series df['difficulty_flag']: one line per row, index and
\* value, and a footer; above 60 rows only the first and last 5 are printed
SeriesStr(values) ==
    LET all == [n \in 1..Len(values) |-> <<ToString(n - 1), values[n]>>]
    IN  IF Len(values) > 60
        THEN SubSeq(all, 1, 5) \o <<<<"..">>>> \o SubSeq(all, Len(values) - 4, Len(values))
             \o <<<<"Name:", "difficulty_flag,", "Length:", ToString(Len(values)) \o ",",
                    "dtype:", "object">>>>
        ELSE all \o <<<<"Name:", "difficulty_flag,", "dtype:", "object">>>>

\* temp_key.split('/')[-1]
FileName(temp_key) == Last(temp_key)

\* line 114, as the path segments of the key
OutputKey(df, temp_key) ==
    <<SeriesStr([n \in 1..Len(df.rows) |-> df.rows[n].difficulty_flag]), FileName(temp_key)>>

TransformOutcomes == {"ok", "read_error", "write_error"}

\* lines 83-117 for one notification:
\*   read_error   s3.get_object or read_parquet raises
\*   KeyError     a retained column is not in the frame
\*   write_error  s3.put_object raises
TransformOne(record, k, store, outcome) ==
    LET found == {a \in temp_bucket : a.key = record.source_key}
    IN  IF outcome = "read_error" \/ found = {}
                                  \/ record.source_bucket # TEMP_BUCKET
        THEN [raised |-> TRUE, what |-> "read_error", key |-> None, store |-> store]
        ELSE LET artifact == CHOOSE a \in found : TRUE
                 df       == Apply([rows |-> artifact.rows, cols |-> artifact.cols], k)
             IN  IF ~(RetainedColumns \subseteq df.cols)
                 THEN [raised |-> TRUE, what |-> "KeyError", key |-> None, store |-> store]
                 ELSE IF outcome = "write_error"
                 THEN [raised |-> TRUE, what |-> "write_error", key |-> None, store |-> store]
                 ELSE LET output_key == OutputKey(df, record.source_key)
                      IN  [raised |-> FALSE, what |-> "written", key |-> output_key,
                           store |-> {a \in store : a.key # output_key}
                                     \cup {[key |-> output_key, rows |-> df.rows,
                                            cols |-> RetainedColumns]}]

\* the queue hands the accepted notifications to the transformation lambda
Invoke ==
    /\ t_pc = "idle"
    /\ h_pc \in {"returned", "raised"}
    /\ Len(queue) > 0
    /\ t_event' = queue
    /\ t_k' = 1
    /\ t_pc' = "running"
    /\ UNCHANGED <<t_log, processed_bucket>>
    /\ UNCHANGED extractionVars
    /\ UNCHANGED pure

\* the loop going on to the next notification after one that raised
TransformRecord_continues(outcome) ==
    /\ t_pc = "running"
    /\ LET r == TransformOne(t_event[t_k], t_k, processed_bucket, outcome)
       IN  /\ processed_bucket' = r.store
           /\ t_log' = Append(t_log, [source_key |-> t_event[t_k].source_key,
                                      what |-> r.what, output_key |-> r.key])
           /\ IF t_k < Len(t_event)
              THEN t_pc' = "running" /\ t_k' = t_k + 1
              ELSE t_pc' = "returned" /\ t_k' = t_k
    /\ UNCHANGED t_event
    /\ UNCHANGED extractionVars
    /\ UNCHANGED pure

\* one pass of the loop of line 82, and the return of line 119 after the last
TransformRecord(outcome) ==
    /\ t_pc = "running"
    /\ LET r == TransformOne(t_event[t_k], t_k, processed_bucket, outcome)
       IN  /\ processed_bucket' = r.store
           /\ t_log' = Append(t_log, [source_key |-> t_event[t_k].source_key,
                                      what |-> r.what, output_key |-> r.key])
           /\ IF r.raised
              THEN t_pc' = "raised" /\ t_k' = t_k
              ELSE IF t_k < Len(t_event)
              THEN t_pc' = "running" /\ t_k' = t_k + 1
              ELSE t_pc' = "returned" /\ t_k' = t_k
    /\ UNCHANGED t_event
    /\ UNCHANGED extractionVars
    /\ UNCHANGED pure

-----------------------------------------------------------------------------
(* The pipeline *)

Init ==
    /\ cfg \in Configs
    /\ event \in Events
    /\ (event = <<LargeObject>>) => (cfg.batch_size = BATCH_SIZE)
    /\ h_pc = "fetch"
    /\ h_k = 1
    /\ batches = <<>>
    /\ workers = <<>>
    /\ temp_bucket = {}
    /\ failed_bucket = {}
    /\ disk = {}
    /\ queue = <<>>
    /\ summaries = <<>>
    /\ h_results = <<>>
    /\ t_pc = "idle"
    /\ t_event = <<>>
    /\ t_k = 0
    /\ t_log = <<>>
    /\ processed_bucket = {}
    /\ pure = [op |-> "none"]

Next ==
    \/ Fetch
    \/ \E j \in 1..Len(workers) : StartBatch(j)
    \/ \E j \in 1..Len(workers), o \in WriteOutcomes : WritePrimary(j, o)
    \/ \E j \in 1..Len(workers), o \in WriteOutcomes : WriteQuarantine(j, o)
    \/ \E j \in 1..Len(workers), o \in SendOutcomes : Publish(j, o)
    \/ Collect
    \/ Invoke
    \/ \E o \in TransformOutcomes : TransformRecord(o)

Spec == Init /\ [][Next]_vars

\* the most batches a raw object of an event gives
MaxBatches == IF MaxRecords > 3 THEN MaxRecords ELSE 3

\* a step of the pool thread that has batch j
WorkerStep(j) ==
    /\ j \in 1..Len(workers)
    /\ \/ StartBatch(j)
       \/ \E o \in WriteOutcomes : WritePrimary(j, o)
       \/ \E o \in WriteOutcomes : WriteQuarantine(j, o)
       \/ \E o \in SendOutcomes : Publish(j, o)

\* the pool threads are scheduled fairly, the calls to the storage and to the
\* queue come back, and the thread of the handler keeps running
Fairness ==
    /\ \A j \in 1..MaxBatches : WF_vars(WorkerStep(j))
    /\ WF_vars(Fetch)
    /\ WF_vars(Collect)

\* the steps of the extraction lambda
NextExtraction ==
    \/ Fetch
    \/ \E j \in 1..Len(workers) : WorkerStep(j)
    \/ Collect

\* the events that give more batches than the pool has threads: every
\* record a batch of its own, on a pool of one or two threads; the records
\* are of the kinds the extraction lambda tells apart
InitFair ==
    /\ Init
    /\ cfg.batch_size = 1
    /\ cfg.max_workers < MAX_WORKERS
    /\ \E k \in 1..Len(event) : Len(event[k].recipes) > cfg.max_workers
    /\ \A k \in 1..Len(event) :
          \A n \in 1..Len(event[k].recipes) : event[k].recipes[n].kind # "notags"

SpecFair == InitFair /\ [][NextExtraction]_vars /\ Fairness

-----------------------------------------------------------------------------
(* The batching step and get_time_estimate on their own *)

\* the pipeline at rest
PipelineIdle ==
    /\ cfg = [batch_size |-> BATCH_SIZE, max_workers |-> MAX_WORKERS]
    /\ event = <<>>
    /\ h_pc = "returned"
    /\ h_k = 0
    /\ batches = <<>>
    /\ workers = <<>>
    /\ temp_bucket = {}
    /\ failed_bucket = {}
    /\ disk = {}
    /\ queue = <<>>
    /\ summaries = <<>>
    /\ h_results = <<>>
    /\ t_pc = "idle"
    /\ t_event = <<>>
    /\ t_k = 0
    /\ t_log = <<>>
    /\ processed_bucket = {}

Records(n) == [i \in 1..n |-> [id |-> i, kind |-> "ok"]]

BatchInputs ==
    {[n |-> n, batch_size |-> b] : n \in 0..MaxLen, b \in 1..MaxBatchSize}
    \cup {[n |-> 250, batch_size |-> BATCH_SIZE]}

InitBatch ==
    /\ PipelineIdle
    /\ \E in \in BatchInputs :
          pure = [op |-> "batch", recipes |-> Records(in.n),
                  batch_size |-> in.batch_size, done |-> FALSE, out |-> <<>>]

\* lines 109-111 applied to the input
ApplyBatch ==
    /\ pure.op = "batch"
    /\ ~pure.done
    /\ pure' = [pure EXCEPT !.done = TRUE,
                            !.out = MakeBatches(pure.recipes, pure.batch_size)]
    /\ UNCHANGED extractionVars
    /\ UNCHANGED transformationVars

NextBatch == ApplyBatch

SpecBatch == InitBatch /\ [][NextBatch]_vars

\* the pieces direction strings are put together from
Pieces ==
    {<<"2">>, <<"1", "0">>, <<" ">>, MINUTES, HOUR, <<"s">>, <<"x">>, <<",">>}

RECURSIVE PieceStrings(_)
PieceStrings(n) ==
    IF n = 0 THEN {<<>>}
    ELSE LET shorter == PieceStrings(n - 1)
         IN  shorter \cup {s \o piece : s \in shorter, piece \in Pieces}

ExampleDirections == {BOIL, WAIT, DASHES, STIR, <<>>}

DirectionLists ==
    {<<s>> : s \in PieceStrings(MaxPieces)}
    \cup UNION {[1..n -> ExampleDirections] : n \in 0..MaxDirections}

InitTime ==
    /\ PipelineIdle
    /\ \E ds \in DirectionLists :
          pure = [op |-> "time", directions |-> ds, done |-> FALSE, out |-> 0]

\* get_time_estimate applied to the input
ApplyTime ==
    /\ pure.op = "time"
    /\ ~pure.done
    /\ pure' = [pure EXCEPT !.done = TRUE, !.out = get_time_estimate(pure.directions)]
    /\ UNCHANGED extractionVars
    /\ UNCHANGED transformationVars

NextTime == ApplyTime

SpecTime == InitTime /\ [][NextTime]_vars

\* a list of n items
Items(n) == [k \in 1..n |-> "item"]

InitScore ==
    /\ PipelineIdle
    /\ \E d \in 0..MaxItems, i \in 0..MaxItems :
          pure = [op |-> "score", directions |-> Items(d), ingredients |-> Items(i),
                  done |-> FALSE, complexity_score |-> [t |-> 0, off |-> 0],
                  difficulty_flag |-> ""]

\* lines 70-73 of transform_row applied to the input
ApplyScore ==
    /\ pure.op = "score"
    /\ ~pure.done
    /\ LET complexity_score == get_complexity_score(pure.ingredients, pure.directions)
       IN  pure' = [pure EXCEPT !.done = TRUE,
                                !.complexity_score = complexity_score,
                                !.difficulty_flag = get_difficulty_flag(complexity_score)]
    /\ UNCHANGED extractionVars
    /\ UNCHANGED transformationVars

NextScore == ApplyScore

SpecScore == InitScore /\ [][NextScore]_vars

-----------------------------------------------------------------------------
(* Claims about the extraction lambda *)

\* the raw objects whose batches have all been collected
Collected == {k \in 1..Len(event) : k < h_k \/ (k = h_k /\ h_pc = "returned")}

\* the workers still hold the batches of the object the last Collect summed up
WorkersCollected ==
    /\ h_pc # "running"
    /\ Len(workers) > 0
    /\ \A j \in 1..Len(workers) : workers[j].pc = "done"

\* the raw object whose batches the workers hold
ObjectOfWorkers == IF h_pc = "returned" \/ h_pc = "running" THEN h_k ELSE h_k - 1

PrimaryKeyOf(k, j) == create_s3_bucket_key(<<k, j, "valid">>)

\* C1: a batch returns None exactly when one of its own steps raised; every
\* other batch returns the key of its stored primary artifact, the handler
\* does not raise because of a batch, and the failed count of the summary is
\* the number of batches that raised.
C1_FailureIsolation ==
    /\ \A j \in 1..Len(workers) :
          workers[j].pc = "done" =>
             /\ (workers[j].result = None) <=> (workers[j].fault # "none")
             /\ workers[j].fault = "none" =>
                   /\ workers[j].result = PrimaryKeyOf(ObjectOfWorkers, j)
                   /\ \E a \in temp_bucket : a.key = workers[j].result
    /\ h_pc = "raised" => event[h_k].status # "ok"
    /\ WorkersCollected =>
          /\ Len(summaries) > 0
          /\ Last(summaries).batches = Len(workers)
          /\ Last(summaries).failed =
                Cardinality({j \in 1..Len(workers) : workers[j].fault # "none"})

\* a summary of several batches, one of them failed and another successful
C1_Witness ==
    /\ WorkersCollected
    /\ Len(workers) >= 2
    /\ Len(summaries) > 0
    /\ Last(summaries).failed = 1
    /\ \E i, j \in 1..Len(workers) :
          /\ workers[i].fault = "primary"
          /\ workers[j].result # None

\* C2: a batch whose quarantine write failed still publishes its
\* notification, returns the primary key and is not a failed batch.
C2_QuarantineFailureOnlyLogged ==
    \A j \in 1..Len(workers) :
        (workers[j].pc = "done" /\ workers[j].fault = "quarantine") =>
            /\ workers[j].result = workers[j].temp_key
            /\ workers[j].result # None
            /\ workers[j].sends = 1

\* C3: no scratch file is left on the host after create_temp_file, whether it
\* returned or raised.
C3_NoScratchFileLeft == disk = {}

\* C8: a batch whose primary artifact was written sends exactly one message;
\* a status other than 200 is logged only and the batch returns its key.
C8_OneSendPerWrittenBatch ==
    \A j \in 1..Len(workers) :
        (workers[j].pc = "done" /\ workers[j].temp_key # None) =>
            /\ workers[j].sends = 1
            /\ (workers[j].fault # "publish" /\ workers[j].status # 200) =>
                  workers[j].result = workers[j].temp_key

\* the artifact stored under a key, if any
Stored(store, key) == {a \in store : a.key = key}

\* C10: a batch without invalid records writes nothing to the quarantine
\* area; a batch of invalid records only, once its primary write has
\* returned, has stored an empty primary artifact, and once its quarantine
\* write has returned, a quarantine artifact holding the whole batch.
C10_QuarantineArtifacts ==
    \A j \in 1..Len(workers) :
        LET wk      == workers[j]
            k       == ObjectOfWorkers
            checked == wk.pc \in {"primary", "quarantine", "publish"}
                       \/ (wk.pc = "done" /\ wk.fault # "validate")
            qkey    == create_s3_bucket_key(<<k, j, "invalid">>)
        IN  checked =>
              /\ (\A n \in 1..Len(batches[j]) : validate_raw_data(batches[j][n])) =>
                    /\ Stored(failed_bucket, qkey) = {}
                    /\ wk.failed_key = None
              /\ (\A n \in 1..Len(batches[j]) : ~validate_raw_data(batches[j][n])) =>
                    /\ wk.temp_key # None =>
                          \E a \in Stored(temp_bucket, wk.temp_key) : a.rows = <<>>
                    /\ wk.failed_key # None =>
                          \E a \in Stored(failed_bucket, wk.failed_key) : a.rows = batches[j]
                    /\ (wk.pc = "done" /\ wk.fault = "none") =>
                          wk.temp_key # None /\ wk.failed_key # None

\* a batch of invalid records only has returned its key
C10_Witness ==
    \E j \in 1..Len(workers) :
        /\ workers[j].pc = "done"
        /\ workers[j].fault = "none"
        /\ Len(batches[j]) >= 2
        /\ \A n \in 1..Len(batches[j]) :
              IsContainer(batches[j][n]) /\ ~validate_raw_data(batches[j][n])
        /\ \E a \in Stored(temp_bucket, workers[j].temp_key) : a.rows = <<>>
        /\ \E a \in Stored(failed_bucket, workers[j].failed_key) : a.rows = batches[j]

\* C7 as stated: every collected raw object has its summary line, the one
\* without records too.
C7_SummaryForEveryObject ==
    \A k \in Collected : \E n \in 1..Len(summaries) : summaries[n].k = k

\* C7 as amended: a collected raw object with records has exactly one summary
\* line, with its record count, ceil(N/B) batches and at most that many
\* failures; a raw object without records has no summary line.
C7_SummaryForNonEmptyObject ==
    /\ \A k \in Collected :
          LET n     == Len(event[k].recipes)
              lines == {m \in 1..Len(summaries) : summaries[m].k = k}
          IN  IF n = 0 THEN lines = {}
              ELSE /\ Cardinality(lines) = 1
                   /\ \A m \in lines :
                         /\ summaries[m].total = n
                         /\ summaries[m].batches =
                               (n + cfg.batch_size - 1) \div cfg.batch_size
                         /\ summaries[m].failed \in 0..summaries[m].batches
    /\ \A m \in 1..Len(summaries) : summaries[m].k \in Collected

\* 250 records in batches of 100: the summary reports 3 batches
C7_Witness ==
    /\ h_pc = "returned"
    /\ cfg.batch_size = 100
    /\ Len(summaries) = 1
    /\ summaries[1].total = 250
    /\ summaries[1].batches = 3

-----------------------------------------------------------------------------
(* Claims about the transformation lambda *)

DifficultyFlags == {"easy", "medium", "hard"}

\* C4: every output artifact is stored under <difficulty_flag>/<filename>,
\* the flag one of easy, medium, hard and the filename the last segment of
\* the notification's source_key.
C4_OutputKeyByDifficulty ==
    \A n \in 1..Len(t_log) :
        t_log[n].what = "written" =>
            /\ Len(t_log[n].output_key) = 2
            /\ \E flag \in DifficultyFlags : t_log[n].output_key[1] = Str(flag)
            /\ t_log[n].output_key[2] = Last(t_log[n].source_key)

\* C5: a notification of an artifact the extraction stage stored, read and
\* written without a storage error, ends with one output artifact of the 8
\* retained columns.
C5_OneOutputPerNotification ==
    \A n \in 1..Len(t_log) :
        t_log[n].what \notin {"read_error", "write_error"} =>
            /\ t_log[n].what = "written"
            /\ \E a \in processed_bucket :
                  a.key = t_log[n].output_key /\ a.cols = RetainedColumns

-----------------------------------------------------------------------------
(* Claims about the batching step *)

RECURSIVE Concat(_)
Concat(seqs) == IF seqs = <<>> THEN <<>> ELSE Head(seqs) \o Concat(Tail(seqs))

\* C9: N records and a batch size B > 0 give ceil(N/B) batches, each of B
\* records except possibly the last, each the contiguous slice at its place,
\* whose concatenation is the input; no record gives no batch.
C9_Batching ==
    (pure.op = "batch" /\ pure.done) =>
        LET n   == Len(pure.recipes)
            b   == pure.batch_size
            out == pure.out
        IN  /\ Len(out) * b >= n
            /\ (Len(out) - 1) * b < n \/ (n = 0 /\ Len(out) = 0)
            /\ \A k \in 1..Len(out) :
                  /\ k < Len(out) => Len(out[k]) = b
                  /\ Len(out[k]) \in 1..b
                  /\ \A i \in 1..Len(out[k]) : out[k][i] = pure.recipes[(k - 1) * b + i]
            /\ Concat(out) = pure.recipes
            /\ n = 0 => out = <<>>

\* 250 records in batches of 100: three batches of 100, 100 and 50
C9_Witness ==
    /\ pure.op = "batch"
    /\ pure.done
    /\ Len(pure.recipes) = 250
    /\ pure.batch_size = 100
    /\ Len(pure.out) = 3
    /\ Len(pure.out[1]) = 100
    /\ Len(pure.out[2]) = 100
    /\ Len(pure.out[3]) = 50

-----------------------------------------------------------------------------
(* Claims about get_time_estimate *)

\* the seconds of the unit words the claim names, 0 for any other word
ClaimedSeconds(word) ==
    IF word = HOUR \/ word = HOURS THEN 3600
    ELSE IF word = MINUTE \/ word = MINUTES THEN 60
    ELSE IF word = SECOND \/ word = SECONDS THEN 1
    ELSE 0

RECURSIVE SumOver(_, _)
SumOver(occs, n) ==
    IF n = 0 THEN 0
    ELSE SumOver(occs, n - 1) + int(occs[n].number) * ClaimedSeconds(occs[n].unit)

\* what the claim gives for one direction: the sum over the occurrences with
\* a recognized word, or 300 when there is none
ClaimedTime(direction) ==
    LET occs == FindAll(direction, 1)
    IN  IF \A n \in 1..Len(occs) : ClaimedSeconds(occs[n].unit) = 0
        THEN 300
        ELSE SumOver(occs, Len(occs))

RECURSIVE ClaimedTotal(_)
ClaimedTotal(directions) ==
    IF directions = <<>> THEN 0
    ELSE ClaimedTime(Head(directions)) + ClaimedTotal(Tail(directions))

\* s[from..] begins with word
StartsWith(s, from, word) ==
    /\ from + Len(word) - 1 <= Len(s)
    /\ SubSeq(s, from, from + Len(word) - 1) = word

\* occurrence occ is a number, optional whitespace and a whole word of s
IsOccurrence(s, occ) ==
    /\ Len(occ.number) > 0
    /\ \A i \in 1..Len(occ.number) : occ.number[i] \in Digits
    /\ Len(occ.unit) > 0
    /\ \A i \in 1..Len(occ.unit) : occ.unit[i] \in WordChars
    /\ \E p \in 1..Len(s), w \in 1..Len(s) :
          /\ StartsWith(s, p, occ.number)
          /\ w >= p + Len(occ.number)
          /\ \A i \in (p + Len(occ.number))..(w - 1) : s[i] \in Spaces
          /\ StartsWith(s, w, occ.unit)
          /\ (w + Len(occ.unit) > Len(s) \/ s[w + Len(occ.unit)] \notin WordChars)

\* s has a digit followed, after optional whitespace, by a word character
HasMention(s) ==
    \E p \in 1..Len(s), w \in 1..Len(s) :
        /\ p < w
        /\ s[p] \in Digits
        /\ \A i \in (p + 1)..(w - 1) : s[i] \in Spaces
        /\ s[w] \in WordChars

\* C6: get_time_estimate is the sum over the directions of the sum of
\* integer * unit-seconds over the number-word occurrences with a recognized
\* word (hour(s) 3600, minute(s) 60, second(s) 1), or 300 for a direction
\* without one; the occurrences are number-whitespace-word pieces of the
\* direction, and there is one whenever a digit is followed by a word.
C6_TimeEstimate ==
    (pure.op = "time" /\ pure.done) =>
        /\ pure.out = ClaimedTotal(pure.directions)
        /\ \A n \in 1..Len(pure.directions) :
              LET s    == pure.directions[n]
                  occs == FindAll(s, 1)
              IN  /\ \A m \in 1..Len(occs) : IsOccurrence(s, occs[m])
                  /\ (occs # <<>>) <=> HasMention(s)
        /\ pure.directions = <<BOIL>> => pure.out = 600
        /\ pure.directions = <<STIR>> => pure.out = 300
        /\ pure.directions = <<WAIT>> => pure.out = 9000
        /\ pure.directions = <<DASHES>> => pure.out = 300
        /\ pure.directions = <<BOIL, WAIT>> => pure.out = 9600

\* the four directions of the claim, each on its own and two together
C6_Witness ==
    /\ pure.op = "time"
    /\ pure.done
    /\ pure.directions = <<DASHES, WAIT>>
    /\ pure.out = 9300

-----------------------------------------------------------------------------
(* Claims about the validation loop *)

\* the number of places of a list that hold the record
Occurrences(list, recipe) == Cardinality({n \in 1..Len(list) : list[n] = recipe})

\* the records of a list stand in the order of their places in the raw object
KeepsOrder(list) == \A m, n \in 1..Len(list) : m < n => list[m].id < list[n].id

\* the batches whose validation loop ran to its end
Split(j) == workers[j].pc \in {"primary", "quarantine", "publish"}
            \/ (workers[j].pc = "done" /\ workers[j].fault # "validate")

\* C11: once the validation loop of a batch has run, every record of the
\* batch is in exactly one of the valid and invalid sub-lists, exactly once,
\* the sub-lists hold nothing else and keep the batch's order, and a record
\* is in the valid list iff title, ingredients and directions are all among
\* its keys.
C11_ValidInvalidPartition ==
    \A j \in 1..Len(workers) :
        Split(j) =>
            LET valid   == workers[j].valid
                invalid == workers[j].invalid
            IN  /\ \A n \in 1..Len(batches[j]) :
                      /\ Occurrences(valid, batches[j][n])
                            + Occurrences(invalid, batches[j][n]) = 1
                      /\ Occurrences(valid, batches[j][n]) = 1
                            <=> {"title", "ingredients", "directions"}
                                   \subseteq KeysOf(batches[j][n])
                /\ Len(valid) + Len(invalid) = Len(batches[j])
                /\ KeepsOrder(valid)
                /\ KeepsOrder(invalid)

\* a batch of three records split into a valid list of two around an invalid one
C11_Witness ==
    \E j \in 1..Len(workers) :
        /\ Split(j)
        /\ Len(batches[j]) = 3
        /\ Len(workers[j].valid) = 2
        /\ Len(workers[j].invalid) = 1
        /\ workers[j].invalid[1] = batches[j][2]
        /\ workers[j].valid[1].kind # workers[j].valid[2].kind

-----------------------------------------------------------------------------
(* Claims about the scores *)

\* C12: for d directions and i ingredients the score is 0.6*d + 0.4*i, that
\* is (6*d + 4*i)/10, and the flag is easy iff that score is below 4, medium
\* iff it is at least 4 and below 8, hard iff it is at least 8; a score of
\* exactly 4.0 is medium and one of exactly 8.0 is hard.
C12_ScoreAndFlag ==
    (pure.op = "score" /\ pure.done) =>
        LET tenths == 6 * Len(pure.directions) + 4 * Len(pure.ingredients)
        IN  /\ pure.complexity_score.t = tenths
            /\ pure.difficulty_flag = "easy" <=> tenths < 40
            /\ pure.difficulty_flag = "medium" <=> (40 <= tenths /\ tenths < 80)
            /\ pure.difficulty_flag = "hard" <=> tenths >= 80
            /\ tenths = 40 => pure.difficulty_flag = "medium"
            /\ tenths = 80 => pure.difficulty_flag = "hard"

-----------------------------------------------------------------------------
(* Claims about the default of get_time_estimate *)

\* the occurrences of a direction with a recognized unit word
Recognized(occs) == SelectSeq(occs, LAMBDA occ : ClaimedSeconds(occ.unit) > 0)

\* C13 as stated: a direction with a number-word occurrence gets no default,
\* also when none of its occurrences has a recognized unit; the default is
\* added only for a direction without any occurrence.
C13_DefaultOnlyWithoutAnyMatch ==
    (pure.op = "time" /\ pure.done /\ Len(pure.directions) = 1) =>
        LET occs == FindAll(pure.directions[1], 1)
        IN  IF occs = <<>> THEN pure.out = 300
            ELSE pure.out = SumOver(occs, Len(occs))

\* C13 as amended: a direction gets the default of 300 exactly when none of
\* its occurrences has a recognized unit, whether it has no occurrence at all
\* or occurrences with unrecognized units only; with a recognized unit it
\* gets the sum of its recognized occurrences and no default.
C13_DefaultWithoutRecognizedUnit ==
    (pure.op = "time" /\ pure.done /\ Len(pure.directions) = 1) =>
        LET occs == FindAll(pure.directions[1], 1)
        IN  IF Recognized(occs) = <<>> THEN pure.out = 300
            ELSE pure.out = SumOver(Recognized(occs), Len(Recognized(occs)))

\* "10 dashes": one occurrence, its unit not recognized, and the default
C13_Witness ==
    /\ pure.op = "time"
    /\ pure.done
    /\ pure.directions = <<DASHES>>
    /\ Len(FindAll(DASHES, 1)) = 1
    /\ Recognized(FindAll(DASHES, 1)) = <<>>
    /\ pure.out = 300

-----------------------------------------------------------------------------
(* Claims about the extraction lambda_handler and its pool *)

\* the raw object, and the batch, a key was made for
ObjectOfKey(key) == Last(key).uuid[1]

BatchOfKey(key) == Last(key).uuid[2]

\* the keys of everything stored or notified so far
KeysWritten ==
    {a.key : a \in temp_bucket} \cup {a.key : a \in failed_bucket}
    \cup {queue[n].source_key : n \in 1..Len(queue)}

\* C14: a raw object that cannot be fetched or parsed ends the invocation
\* with the exception: the handler never returns its response for such an
\* event, never goes past such an object or runs a batch of it, and nothing
\* is stored, notified or summed up for it.
C14_FetchFailurePropagates ==
    /\ h_pc = "returned" => \A k \in 1..Len(event) : event[k].status = "ok"
    /\ h_pc = "running" => event[h_k].status = "ok"
    /\ \A k \in 1..Len(event) :
          event[k].status # "ok" =>
             /\ \A key \in KeysWritten : ObjectOfKey(key) # k
             /\ \A n \in 1..Len(summaries) : summaries[n].k # k
             /\ h_k <= k
             /\ h_k = k => h_pc \in {"fetch", "raised"}

\* the first raw object of the event is malformed and the handler has raised
C14_Witness ==
    /\ h_pc = "raised"
    /\ h_k = 1
    /\ event[1].status = "malformed"
    /\ KeysWritten = {}

\* C15: at most max_workers batches are inside extract_recipe_data at a time.
C15_BoundedWorkers == NumActive <= cfg.max_workers

\* the pool is full and a further batch waits for a free thread
C15_Witness ==
    /\ cfg.max_workers = 2
    /\ NumActive = 2
    /\ \E j \in 1..Len(workers) : workers[j].pc = "queued"

\* C18: every message in the queue names the primary area and the key of a
\* stored primary artifact, the key the primary write of its batch returned;
\* a batch whose primary write raised has sent nothing, and nothing is
\* stored or notified under its keys.
C18_NotificationAfterPrimaryWrite ==
    /\ \A n \in 1..Len(queue) :
          /\ queue[n].source_bucket = TEMP_BUCKET
          /\ \E a \in temp_bucket : a.key = queue[n].source_key
          /\ ObjectOfKey(queue[n].source_key) = ObjectOfWorkers =>
                workers[BatchOfKey(queue[n].source_key)].temp_key = queue[n].source_key
    /\ \A j \in 1..Len(workers) :
          /\ workers[j].sends > 0 => workers[j].temp_key = PrimaryKeyOf(ObjectOfWorkers, j)
          /\ workers[j].fault = "primary" =>
                /\ workers[j].sends = 0
                /\ workers[j].temp_key = None
                /\ workers[j].failed_key = None
                /\ \A key \in KeysWritten :
                      ~(ObjectOfKey(key) = ObjectOfWorkers /\ BatchOfKey(key) = j)

\* a batch with invalid records whose primary write raised, beside a batch
\* that has published its notification
C18_Witness ==
    \E i, j \in 1..Len(workers) :
        /\ workers[i].fault = "primary"
        /\ Len(workers[i].invalid) > 0
        /\ workers[j].result # None
        /\ workers[j].status = 200
        /\ \E n \in 1..Len(queue) : queue[n] = MessageBody(workers[j].temp_key)

\* the raw objects handled before the one at hand
Before(k) == 1..(k - 1)

\* C19: the raw objects are handled one after another.  Nothing is stored,
\* notified or summed up for an object after the one at hand; when the
\* handler has raised at object k, every object before k was fetched and
\* summed up, and the step that raises leaves every artifact and
\* notification in place.
C19_ObjectsInSequence ==
    /\ [](/\ \A key \in KeysWritten : ObjectOfKey(key) <= h_k
          /\ \A n \in 1..Len(summaries) : summaries[n].k <= h_k
          /\ h_pc = "raised" =>
                /\ event[h_k].status # "ok"
                /\ \A key \in KeysWritten : ObjectOfKey(key) < h_k
                /\ \A k \in Before(h_k) :
                      /\ event[k].status = "ok"
                      /\ Len(event[k].recipes) > 0 =>
                            \E n \in 1..Len(summaries) : summaries[n].k = k)
    /\ [][h_pc' = "raised" =>
             /\ temp_bucket' = temp_bucket
             /\ failed_bucket' = failed_bucket
             /\ queue' = queue
             /\ summaries' = summaries]_vars

\* the second raw object has raised; the artifact, the notification and the
\* summary of the first are in place
C19_Witness ==
    /\ h_pc = "raised"
    /\ h_k = 2
    /\ Len(summaries) = 1
    /\ Len(queue) > 0
    /\ \E a \in temp_bucket : ObjectOfKey(a.key) = 1
    /\ \E a \in failed_bucket : ObjectOfKey(a.key) = 1

-----------------------------------------------------------------------------
(* Claims about the collected results *)

\* C16: the list threaded_extraction returned has one entry per batch, and
\* entry k is the outcome of batch k: None when batch k raised, else the key
\* of the primary artifact of batch k, in whatever order the batches returned.
C16_IndexStableResults ==
    WorkersCollected =>
        /\ Len(h_results) = Len(batches)
        /\ \A k \in 1..Len(batches) :
              /\ h_results[k] = workers[k].result
              /\ workers[k].fault # "none" => h_results[k] = None
              /\ workers[k].fault = "none" =>
                    /\ h_results[k] = PrimaryKeyOf(ObjectOfWorkers, k)
                    /\ \E a \in temp_bucket : a.key = h_results[k] /\ a.rows = workers[k].valid

\* three batches that returned in the order 3, 1, 2, the second a failure
C16_Witness ==
    /\ WorkersCollected
    /\ Len(workers) = 3
    /\ workers[3].rank = 1
    /\ workers[1].rank = 2
    /\ workers[2].rank = 3
    /\ h_results[1] # None
    /\ h_results[2] = None
    /\ h_results[3] # None

-----------------------------------------------------------------------------
(* Claims about the order of the transformation *)

\* the notifications whose output artifact was written
Written == {n \in 1..Len(t_log) : t_log[n].what = "written"}

\* C20: the notifications are handled one at a time in the order of the
\* event, each read, transformed and written before the next is read.  A
\* notification that raises is the last one handled and the handler raises;
\* every notification before it has its output artifact in the processed
\* area, no notification after it has one, and no output artifact is ever
\* removed.
C20_NotificationsInSequence ==
    /\ [](t_pc # "idle" =>
             /\ Len(t_log) = IF t_pc = "running" THEN t_k - 1 ELSE t_k
             /\ \A n \in 1..Len(t_log) :
                   /\ t_log[n].source_key = t_event[n].source_key
                   /\ n < Len(t_log) => t_log[n].what = "written"
             /\ t_pc = "raised" <=> (t_log # <<>> /\ Last(t_log).what # "written")
             /\ t_pc = "returned" => Written = 1..Len(t_event)
             /\ \A n \in Written :
                   \E a \in processed_bucket :
                      /\ a.key = t_log[n].output_key
                      /\ FileName(a.key) = FileName(t_event[n].source_key)
             /\ \A a \in processed_bucket :
                   \E n \in Written : FileName(a.key) = FileName(t_event[n].source_key)
             /\ Cardinality(processed_bucket) = Cardinality(Written))
    /\ [][processed_bucket \subseteq processed_bucket']_vars

\* the second of three notifications has raised: the output of the first is
\* in place and the third was not handled
C20_Witness ==
    /\ t_pc = "raised"
    /\ Len(t_event) = 3
    /\ t_k = 2
    /\ Len(t_log) = 2
    /\ t_log[1].what = "written"
    /\ Cardinality(processed_bucket) = 1
    /\ \E a \in processed_bucket : FileName(a.key) = FileName(t_event[1].source_key)

-----------------------------------------------------------------------------
(* Claims about termination *)

AllReturned == \A j \in 1..Len(workers) : workers[j].pc = "done"

\* C17: under fair scheduling every batch submitted to the pool comes to a
\* result, with more batches than threads and with failing siblings too, and
\* the handler comes to its end; the handler leaves threaded_extraction, and
\* prints its summary, only in a step taken when every batch has returned,
\* with one result per batch.
C17_EveryBatchCompletes ==
    /\ \A j \in 1..MaxBatches :
          (h_pc = "running" /\ j <= Len(workers))
             ~> (j <= Len(workers) /\ workers[j].pc = "done")
    /\ <>(h_pc \in {"returned", "raised"})
    /\ [][(h_pc = "running" /\ (h_pc' # "running" \/ summaries' # summaries)) =>
             /\ AllReturned
             /\ Len(h_results') = Len(batches)
             /\ \A j \in 1..Len(workers) :
                   h_results'[j] = None \/ h_results'[j] = PrimaryKeyOf(h_k, j)]_vars
    /\ [](h_pc = "returned" => AllReturned)

\* three batches on a pool of two threads have all returned, one of them
\* failed, and the handler has returned
C17_Witness ==
    /\ h_pc = "returned"
    /\ cfg.max_workers = 2
    /\ Len(workers) = 3
    /\ AllReturned
    /\ workers[1].fault = "primary"
    /\ workers[3].fault = "none"
    /\ Len(summaries) = 1
    /\ Last(summaries).failed = 1

====
